---- MODULE Spec2Model ----
(***************************************************************************)
(* A model of the Loyverse -> Supabase inventory syncer.                   *)
(*                                                                         *)
(*   src/src/sync-service.ts      InventorySyncService (fullSync,          *)
(*                                incrementalSync)                         *)
(*   src/src/supabase-service.ts  SupabaseService (upsertProducts,         *)
(*                                getLastSyncTimestamp, logSync,           *)
(*                                getAllProductSkus, deleteProductsBySkus) *)
(*   src/src/loyverse-client.ts   LoyverseClient (getAll*, get*UpdatedAfter)*)
(*   src/unnamed/part_000         CacheService, the record types           *)
(*                                                                         *)
(* One sync pass is a process that moves from await to await; every await  *)
(* of the code is one action.  The upstream catalog, the products table,   *)
(* the sync_logs ledger and the on-disk cache are global.                  *)
(***************************************************************************)
EXTENDS Integers, Sequences, FiniteSets, TLC

(***************************************************************************)
(* Bounds of the model.                                                    *)
(***************************************************************************)
\* Sync passes started in one behaviour in which requests can fail.
MaxPasses == 2
\* Sync passes started in one behaviour in which no request fails.
MaxReliablePasses == 3
\* Changes made to the upstream catalog in one behaviour.
MaxChanges == 1
\* Sync passes and changes of the upstream catalog in one behaviour in which
\* no request fails and the catalog changes more than once.
MaxDriftPasses == 2
MaxDriftChanges == 2
\* Sync passes and changes of the upstream catalog in one behaviour in which
\* no request fails and variants come and go upstream.
MaxStalePasses == 3
MaxStaleChanges == 2
\* Full syncs and changes of the upstream catalog in one behaviour in which
\* two requests are served at the same time.
MaxRacePasses == 2
MaxRaceChanges == 2
\* Full syncs, and changes of the upstream catalog or damaged cache files,
\* in one behaviour in which cache files get damaged and cache writes fail.
MaxCachePasses == 2
MaxCacheChanges == 2
\* Requests of one paginated fetch of an upstream collection.
MaxRequests == 4
\* Rows per upsert/delete batch: stands for chunkSize = 100
\* (supabase-service.ts:52 and :169), scaled to the size of the catalog.
ChunkSize == 2
\* Rows per page of the SKU enumeration: stands for pageSize = 1000
\* (supabase-service.ts:128), scaled to the size of the catalog.
PageSize == 2

(***************************************************************************)
(* Values.                                                                 *)
(***************************************************************************)
\* null / undefined of a string-valued field.
Null == "<null>"

\* The sync passes that can be in progress.
Procs == {1, 2}


\* Record merge: rec with the fields of upd replaced.
With(rec, upd) ==
  [k \in DOMAIN rec |-> IF k \in DOMAIN upd THEN upd[k] ELSE rec[k]]

RECURSIVE SeqSum(_)
SeqSum(s) == IF s = <<>> THEN 0 ELSE Head(s) + SeqSum(Tail(s))

\* The elements of a sequence.
Range(s) == {s[k] : k \in 1..Len(s)}

\* Array.prototype.slice(from, to) with 0-based, end-exclusive indices.
Slice(s, from, to) ==
  LET hi == IF to < Len(s) THEN to ELSE Len(s)
  IN  IF from >= hi THEN <<>> ELSE SubSeq(s, from + 1, hi)

(***************************************************************************)
(* The upstream catalog (Loyverse).  The records carry the fields of the   *)
(* types the sync reads.  in_stock is counted in halves of a unit, so that *)
(* Math.floor has something to round.                                      *)
(***************************************************************************)
CategoryCatalog ==
  << [id |-> "C1", name |-> "Drinks"] >>

ItemCatalog ==
  << [id |-> "I1", item_name |-> "Shirt", category_id |-> "C1",
      description |-> "cotton", updated_at |-> 0],
     [id |-> "I2", item_name |-> "Cap", category_id |-> Null,
      description |-> Null, updated_at |-> 0] >>

VariantCatalog ==
  << [variant_id |-> "V1", item_id |-> "I1", sku |-> "A",
      option1_value |-> "Red", option2_value |-> "Large", option3_value |-> Null,
      default_price |-> 1, updated_at |-> 0],
     [variant_id |-> "V2", item_id |-> "I1", sku |-> Null,
      option1_value |-> Null, option2_value |-> Null, option3_value |-> Null,
      default_price |-> 1, updated_at |-> 0],
     [variant_id |-> "V3", item_id |-> "I2", sku |-> "A",
      option1_value |-> Null, option2_value |-> "Small", option3_value |-> Null,
      default_price |-> 1, updated_at |-> 0],
     [variant_id |-> "", item_id |-> "I1", sku |-> "",
      option1_value |-> Null, option2_value |-> Null, option3_value |-> Null,
      default_price |-> 1, updated_at |-> 0] >>

InventoryCatalog ==
  << [variant_id |-> "V1", store_id |-> "S1", in_stock |-> 3],
     [variant_id |-> "V1", store_id |-> "S2", in_stock |-> 2],
     [variant_id |-> "V3", store_id |-> "S1", in_stock |-> -3],
     [variant_id |-> "V9", store_id |-> "S2", in_stock |-> 4] >>

\* SKUs in the order the store returns them (select('sku') states no order;
\* the model fixes one).
SkuOrder == <<"A", "V1", "V2", "V3">>

VARIABLES
  upstream,    \* the Loyverse catalog: items, variants, inventory, categories
  products,    \* the products table: a set of rows, sku unique
  sync_logs,   \* the sync_logs ledger, in insertion order
  cache,       \* the .cache directory: key -> cached JSON file
  now,         \* the clock new Date() reads
  pass,        \* per process: the locals of the running fullSync/incrementalSync
  passes,      \* number of passes started
  changes      \* number of upstream changes made

vars == <<upstream, products, sync_logs, cache, now, pass, passes, changes>>

\* The outcomes of one request to the upstream API or to the store: when
\* requests can fail, and when the network and the services are reliable.
Outcomes == {"ok", "error"}

Reliable == {"ok"}

\* When no request fails and writing a cache file can fail.
CacheOutcomes == {"ok", "unwritable"}

CacheKeys ==
  {"loyverse_items", "loyverse_variants", "loyverse_inventory",
   "loyverse_categories", "supabase_product_skus"}

\* No file of that key; readable tells, of a file, whether get() can read and
\* parse it.
NoFile == [present |-> FALSE, readable |-> FALSE, data |-> <<>>]

\* A SyncResult (part_000:207-213) that no pass has filled in.
NoResult ==
  [products_synced |-> 0, products_deleted |-> 0, errors |-> <<>>,
   started_at |-> 0, completed_at |-> 0]

\* The locals of a paginated fetch that has not been called.
NoPaging ==
  [call |-> "none", server |-> <<>>, cursor |-> Null, requests |-> <<>>,
   responses |-> <<>>, records |-> <<>>, returned |-> FALSE]

\* The locals of a pass that has not started.
IdlePass ==
  [pc |-> "idle", entry |-> "none", mode |-> "none", useCache |-> FALSE,
   startedAt |-> 0, errors |-> <<>>, productsSynced |-> 0, productsDeleted |-> 0,
   lastSync |-> 0,
   categories |-> <<>>, items |-> <<>>, variants |-> <<>>,
   productsData |-> <<>>, validProducts |-> <<>>, i |-> 0, totalUpserted |-> 0,
   allSkus |-> <<>>, page |-> 0, skusToDelete |-> <<>>, totalDeleted |-> 0,
   outcome |-> "none", result |-> NoResult,
   \* history of the invocation, read by the properties only
   tableAtStart |-> {}, srcAtStart |-> <<>>, ledgerAtStart |-> 0,
   repeat |-> FALSE, fetchErrors |-> 0,
   itemsDelta |-> <<>>, itemsUpstream |-> <<>>, repairs |-> 0,
   fromCache |-> {}, lastSyncError |-> FALSE,
   type |-> "none", configured |-> FALSE, status |-> 0,
   upsertSent |-> 0, upsertErrors |-> 0, upsertAfterError |-> 0,
   upsertedRows |-> 0, deleteSent |-> 0, diffRun |-> FALSE, diffTable |-> {},
   inserts |-> 0, logged |-> 0,
   \* the paginated fetch in progress, when its pages are looked at
   paging |-> NoPaging]

Init ==
  /\ upstream \in
       { [items |-> it, variants |-> vs,
          inventory |-> InventoryCatalog, categories |-> CategoryCatalog] :
         it \in {ItemCatalog, SubSeq(ItemCatalog, 1, 1)},
         vs \in {SubSeq(VariantCatalog, 1, 3), SubSeq(VariantCatalog, 1, 2)} }
  /\ products = {}
  /\ sync_logs = <<>>
  /\ cache = [k \in CacheKeys |-> NoFile]
  /\ now = 1
  /\ pass = [p \in Procs |-> IdlePass]
  /\ passes = 0
  /\ changes = 0

(***************************************************************************)
(* CacheService (part_000:31-79) as LoyverseClient and SupabaseService use *)
(* it: has(key) without a maximum age, get(key), set(key, data).           *)
(***************************************************************************)
CacheHas(key) == cache[key].present

CacheGet(key) == cache[key].data

CacheSet(c, key, data) ==
  [c EXCEPT ![key] = [present |-> TRUE, readable |-> TRUE, data |-> data]]

\* set() (part_000:70-78): writeFileSync in a try block; when the write
\* fails the error is printed and the directory stays as it was.
CacheWrite(c, key, data, o) ==
  IF o = "unwritable" THEN c ELSE CacheSet(c, key, data)

\* A get() that takes whatever the file holds for the list.
CacheReadableAlways(key) == TRUE

\* get() returns a value rather than null (part_000:52-65): the file can be
\* read and parsed.
CacheReadable(key) == cache[key].present /\ cache[key].readable

\* if (this.useCache && this.cache.has(key)) { cached = get(key);
\*   if (cached) return cached }  (loyverse-client.ts:36-40)
CacheHit(useCache, key) == useCache /\ CacheHas(key) /\ CacheReadable(key)

(***************************************************************************)
(* LoyverseClient.  A getAll* call answers from the cache when the pass    *)
(* uses the cache and the file exists; otherwise it reads every page of    *)
(* the collection, writes the cache and returns, or throws when a request  *)
(* fails.  The result: whether it threw, the data, the cache afterwards.   *)
(***************************************************************************)
CachedFetch(key, useCache, live, o) ==
  IF CacheHit(useCache, key)
    THEN [threw |-> FALSE, data |-> CacheGet(key), cache |-> cache]
  ELSE IF o = "error"
    THEN [threw |-> TRUE, data |-> <<>>, cache |-> cache]
  ELSE [threw |-> FALSE, data |-> live, cache |-> CacheWrite(cache, key, live, o)]

getAllItems(useCache, o) ==
  CachedFetch("loyverse_items", useCache, upstream.items, o)

getAllVariants(useCache, o) ==
  CachedFetch("loyverse_variants", useCache, upstream.variants, o)

getAllInventoryLevels(useCache, o) ==
  CachedFetch("loyverse_inventory", useCache, upstream.inventory, o)

getAllCategories(useCache, o) ==
  CachedFetch("loyverse_categories", useCache, upstream.categories, o)

\* updated_at_min is inclusive; the delta fetches never touch the cache.
UpdatedAfter(records, date) ==
  SelectSeq(records, LAMBDA x : x.updated_at >= date)

getItemsUpdatedAfter(date, o) ==
  IF o = "error" THEN [threw |-> TRUE, data |-> <<>>]
  ELSE [threw |-> FALSE, data |-> UpdatedAfter(upstream.items, date)]

getVariantsUpdatedAfter(date, o) ==
  IF o = "error" THEN [threw |-> TRUE, data |-> <<>>]
  ELSE [threw |-> FALSE, data |-> UpdatedAfter(upstream.variants, date)]

(***************************************************************************)
(* The join of sync-service.ts (steps 1-5 of both passes) and the mapping  *)
(* of upsertProducts.                                                      *)
(***************************************************************************)
\* JavaScript truthiness of an optional string.
Truthy(s) == s # Null /\ s # ""

\* A key that is always the variant id.
EffectiveSkuIsId(variant) == variant.variant_id

\* variant.sku || variant.variant_id
EffectiveSku(variant) ==
  IF Truthy(variant.sku) THEN variant.sku ELSE variant.variant_id

\* new Map(items.map(item => [item.id, item])): the last entry of an id wins.
MapHas(entries, id) == \E k \in 1..Len(entries) : entries[k].id = id

MapGet(entries, id) ==
  LET ks == {k \in 1..Len(entries) : entries[k].id = id}
  IN  entries[CHOOSE k \in ks : \A m \in ks : m <= k]

\* A quantity lookup that takes the in_stock of the first record of the
\* variant instead of the sum.
InventoryOfFirstStore(inventoryLevels, variant_id) ==
  LET own == SelectSeq(inventoryLevels, LAMBDA inv : inv.variant_id = variant_id)
  IN  IF own = <<>> THEN 0 ELSE Head(own).in_stock

\* inventoryMap.get(variant_id) || 0, after the forEach that sums in_stock.
InventoryTotal(inventoryLevels, variant_id) ==
  LET own == SelectSeq(inventoryLevels, LAMBDA inv : inv.variant_id = variant_id)
  IN  SeqSum([k \in 1..Len(own) |-> own[k].in_stock])

\* inventoryLevels.find(...) with in_stock replaced by the total.
InventoryOf(inventoryLevels, variant_id) ==
  LET own == SelectSeq(inventoryLevels, LAMBDA inv : inv.variant_id = variant_id)
      totalQty == InventoryTotal(inventoryLevels, variant_id)
  IN  IF own # <<>>
        THEN [variant_id |-> variant_id, store_id |-> Head(own).store_id,
              in_stock |-> totalQty]
        ELSE [variant_id |-> variant_id, store_id |-> "", in_stock |-> totalQty]

CategoryName(item, categories) ==
  IF Truthy(item.category_id) /\ MapHas(categories, item.category_id)
    THEN MapGet(categories, item.category_id).name
    ELSE Null

\* A join that keeps a variant whose item is not in the lookup, with an item
\* that carries no data.
JoinKeepingOrphans(variants, itemsMap, inventoryLevels, categories) ==
  [k \in 1..Len(variants) |->
    LET variant == variants[k]
        item == IF MapHas(itemsMap, variant.item_id)
                  THEN MapGet(itemsMap, variant.item_id)
                  ELSE [id |-> variant.item_id, item_name |-> "",
                        category_id |-> Null, description |-> Null,
                        updated_at |-> 0]
    IN  [variant |-> variant,
         item |-> item,
         inventory |-> InventoryOf(inventoryLevels, variant.variant_id),
         categoryName |-> CategoryName(item, categories)]]

\* variants.map(...).filter(p => p !== null): a variant whose item is not in
\* the item lookup is dropped.
JoinProducts(variants, itemsMap, inventoryLevels, categories) ==
  LET resolved == SelectSeq(variants, LAMBDA v : MapHas(itemsMap, v.item_id))
  IN  [k \in 1..Len(resolved) |->
        LET variant == resolved[k]
            item == MapGet(itemsMap, variant.item_id)
        IN  [variant |-> variant,
             item |-> item,
             inventory |-> InventoryOf(inventoryLevels, variant.variant_id),
             categoryName |-> CategoryName(item, categories)]]

\* The option values that are set, in option1, option2, option3 order.
Options(variant) ==
  SelectSeq(<<variant.option1_value, variant.option2_value, variant.option3_value>>,
            Truthy)

\* options.join(', ') as a sequence of string pieces.
RECURSIVE JoinComma(_)
JoinComma(options) ==
  IF Len(options) <= 1 THEN options
  ELSE <<Head(options), ", ">> \o JoinComma(Tail(options))

\* item_name, followed by " (o1, o2)" when an option is set; a string is the
\* sequence of its pieces.
ProductName(item, variant) ==
  IF Options(variant) = <<>> THEN <<item.item_name>>
  ELSE <<item.item_name, " (">> \o JoinComma(Options(variant)) \o <<")">>

\* Math.floor of a quantity counted in halves.
Floor(halves) == halves \div 2

\* The SupabaseProduct of one joined product (supabase-service.ts:21-46).
ToSupabaseProduct(pd) ==
  [sku |-> EffectiveSku(pd.variant),
   name |-> ProductName(pd.item, pd.variant),
   category |-> IF Truthy(pd.categoryName) THEN pd.categoryName ELSE Null,
   desc |-> IF Truthy(pd.item.description) THEN pd.item.description ELSE Null,
   price |-> pd.variant.default_price,
   qty |-> Floor(pd.inventory.in_stock)]

\* An upsertProducts that sends every product, the filter left out.
AllProducts(productsData) ==
  [k \in 1..Len(productsData) |-> ToSupabaseProduct(productsData[k])]

\* products.filter(p => p.sku)
ValidProducts(productsData) ==
  SelectSeq([k \in 1..Len(productsData) |-> ToSupabaseProduct(productsData[k])],
            LAMBDA row : Truthy(row.sku))

(***************************************************************************)
(* The products table.                                                     *)
(***************************************************************************)
TableSkus(table) == {row.sku : row \in table}

\* upsert(chunk, {onConflict: 'sku'}): the rows in order, a row replacing
\* the row of the same sku.
RECURSIVE UpsertRows(_, _)
UpsertRows(table, chunk) ==
  IF chunk = <<>> THEN table
  ELSE UpsertRows({row \in table : row.sku # Head(chunk).sku} \cup {Head(chunk)},
                  Tail(chunk))

\* Whether two rows of one batch carry the same sku: the store refuses such
\* an upsert (INSERT ... ON CONFLICT DO UPDATE cannot affect a row twice).
HasDuplicateSku(chunk) ==
  \E k, m \in 1..Len(chunk) : k # m /\ chunk[k].sku = chunk[m].sku

\* delete().in('sku', chunk)
DeleteRows(table, chunk) == {row \in table : row.sku \notin Range(chunk)}

\* A range that leaves out its last row.
SkuPageExclusive(table, from, to) ==
  Slice(SelectSeq(SkuOrder, LAMBDA s : s \in TableSkus(table)), from, to)

\* select('sku').range(from, to): one page of the table, to inclusive.
SkuPage(table, from, to) ==
  Slice(SelectSeq(SkuOrder, LAMBDA s : s \in TableSkus(table)), from, to + 1)

\* A watermark query without the status filter: the completed_at of the
\* latest entry of any status.
LastEntryOfAnyStatus(ledger) ==
  IF ledger = <<>> THEN 0 ELSE ledger[Len(ledger)].completed_at

\* The completed_at of the latest status = success entry, 0 when there is none
\* (order by completed_at descending, limit 1).
LastSuccess(ledger) ==
  LET ok == {k \in 1..Len(ledger) : ledger[k].status = "success"}
  IN  IF ok = {} THEN 0
      ELSE ledger[CHOOSE k \in ok :
                    \A m \in ok : ledger[m].completed_at <= ledger[k].completed_at].completed_at

(***************************************************************************)
(* The control flow of a pass.  pc names the await the pass is suspended   *)
(* at:                                                                     *)
(*   fullSync         categories, items, variants, inventory, upsert,      *)
(*                    skus, delete, log_success | log_failed, done         *)
(*   incrementalSync  last_sync, categories, items_delta, variants_delta,  *)
(*                    [repair], inventory, upsert, log_success |           *)
(*                    log_failed, done                                     *)
(***************************************************************************)
Set(p, rec) == pass' = [pass EXCEPT ![p] = rec]

\* The locals fullSync starts with (sync-service.ts:18-21).
BeginFull(rec) ==
  With(rec, [mode |-> "full", pc |-> "categories", startedAt |-> now,
             errors |-> <<>>, productsSynced |-> 0, productsDeleted |-> 0])

\* The locals incrementalSync starts with (sync-service.ts:153-156).
BeginIncremental(rec) ==
  With(rec, [mode |-> "incremental", pc |-> "last_sync", startedAt |-> now,
             errors |-> <<>>, productsSynced |-> 0, productsDeleted |-> 0])

\* The values of the type option a request can carry: the three the handler
\* knows and one it does not.
Types == {"full", "incremental", "stats", "other"}

\* validateConfig() with the three credentials all set (configured) or one
\* of them missing: TRUE when it returns, FALSE when it throws.
validateConfigAlways(configured) == TRUE

validateConfig(configured) == configured

\* A handler that serves a request only when no pass is in progress.
ReadyWhenNoPassRuns(p) ==
  \A q \in Procs : pass[q].pc \in {"idle", "done", "answered"}

\* The handler is ready for the next request of the process.
Ready(p) == pass[p].pc \in {"idle", "done", "answered"}

\* A request of the trigger endpoint with a valid configuration and type
\* full or incremental starts a pass on a new InventorySyncService(useCache).
Start(p, type, configured, useCache, limit) ==
  /\ Ready(p)
  /\ validateConfig(configured)
  /\ type \in {"full", "incremental"}
  /\ passes < limit
  /\ passes' = passes + 1
  /\ LET last == pass[p]
         fresh == With(IdlePass,
                    [entry |-> type, useCache |-> useCache,
                     type |-> type, configured |-> configured,
                     tableAtStart |-> products, srcAtStart |-> upstream,
                     ledgerAtStart |-> Len(sync_logs),
                     \* a fullSync that follows a fullSync without error,
                     \* the upstream catalog the same throughout
                     repeat |-> /\ type = "full"
                                /\ last.pc = "done" /\ last.entry = "full"
                                /\ last.errors = <<>>
                                /\ last.srcAtStart = upstream])
     IN  Set(p, IF type = "full" THEN BeginFull(fresh) ELSE BeginIncremental(fresh))
  /\ UNCHANGED <<upstream, products, sync_logs, cache, now, changes>>

\* A request the handler answers without a pass: validateConfig throws and
\* the catch answers 500, whatever the type; or the configuration is valid and
\* the type is none of full, incremental, stats, and the default case of the
\* switch answers 400.
Reject(p, type, configured, limit) ==
  /\ Ready(p)
  /\ passes < limit
  /\ passes' = passes + 1
  /\ \/ /\ ~validateConfig(configured)
        /\ Set(p, With(IdlePass, [pc |-> "answered", type |-> type,
                                  configured |-> configured, status |-> 500]))
     \/ /\ validateConfig(configured)
        /\ type \notin {"full", "incremental", "stats"}
        /\ Set(p, With(IdlePass, [pc |-> "answered", type |-> type,
                                  configured |-> configured, status |-> 400]))
  /\ UNCHANGED <<upstream, products, sync_logs, cache, now, changes>>

\* A request of type stats with a valid configuration: getStats() reads the
\* number of rows of the products table and prints it; the handler answers
\* 200.
Stats(p, configured, limit) ==
  /\ Ready(p)
  /\ validateConfig(configured)
  /\ passes < limit
  /\ passes' = passes + 1
  /\ Set(p, With(IdlePass, [pc |-> "answered", type |-> "stats",
                            configured |-> configured, status |-> 200]))
  /\ UNCHANGED <<upstream, products, sync_logs, cache, now, changes>>

\* A catch block that answers without writing the failure entry.
CatchAndReturn(rec, message) ==
  With(rec, [errors |-> Append(rec.errors, message), pc |-> "done",
             outcome |-> "returned"])

\* The catch block of the pass up to its await (sync-service.ts:123-127,
\* 264-268): the message is pushed and the failure entry is written next.
Catch(rec, message) ==
  With(rec, [errors |-> Append(rec.errors, message), pc |-> "log_failed"])

\* History: the cache files the pass has answered a call from.
ReadFrom(rec, key) ==
  IF CacheHit(rec.useCache, key) THEN rec.fromCache \cup {key} ELSE rec.fromCache

\* A request to the upstream API failed: the fetch throws.
FetchFailed(rec) ==
  Catch(With(rec, [fetchErrors |-> rec.fetchErrors + 1]), "loyverse")

\* const lastSync = await getLastSyncTimestamp(); a failed query and an empty
\* result both give null, and null degrades to fullSync.
\* A watermark read that answers from the ledger whatever the query returns.
getLastSyncTimestampAnyway(o) == LastSuccess(sync_logs)

getLastSyncTimestamp(o) == IF o = "error" THEN 0 ELSE LastSuccess(sync_logs)

ReadLastSync(p, O) ==
  /\ pass[p].pc = "last_sync"
  /\ \E o \in O :
       LET lastSync == getLastSyncTimestamp(o)
           rec == With(pass[p], [lastSyncError |-> o = "error"])
       IN  /\ Set(p, IF lastSync = 0
                       THEN BeginFull(rec)
                       ELSE With(rec, [lastSync |-> lastSync, pc |-> "categories"]))
  /\ UNCHANGED <<upstream, products, sync_logs, cache, now, passes, changes>>

FetchCategories(p, O) ==
  /\ pass[p].pc = "categories"
  /\ \E o \in O :
       LET f == getAllCategories(pass[p].useCache, o)
       IN  IF f.threw
             THEN /\ Set(p, FetchFailed(pass[p]))
                  /\ UNCHANGED cache
             ELSE /\ Set(p, With(pass[p],
                           [categories |-> f.data,
                            fromCache |-> ReadFrom(pass[p], "loyverse_categories"),
                            pc |-> IF pass[p].mode = "full" THEN "items"
                                   ELSE "items_delta"]))
                  /\ cache' = f.cache
  /\ UNCHANGED <<upstream, products, sync_logs, now, passes, changes>>

\* fullSync step 2.
FetchItems(p, O) ==
  /\ pass[p].pc = "items"
  /\ \E o \in O :
       LET f == getAllItems(pass[p].useCache, o)
       IN  IF f.threw
             THEN /\ Set(p, FetchFailed(pass[p]))
                  /\ UNCHANGED cache
             ELSE /\ Set(p, With(pass[p],
                           [items |-> f.data,
                            fromCache |-> ReadFrom(pass[p], "loyverse_items"),
                            pc |-> "variants"]))
                  /\ cache' = f.cache
  /\ UNCHANGED <<upstream, products, sync_logs, now, passes, changes>>

\* fullSync step 3.
FetchVariants(p, O) ==
  /\ pass[p].pc = "variants"
  /\ \E o \in O :
       LET f == getAllVariants(pass[p].useCache, o)
       IN  IF f.threw
             THEN /\ Set(p, FetchFailed(pass[p]))
                  /\ UNCHANGED cache
             ELSE /\ Set(p, With(pass[p],
                           [variants |-> f.data,
                            fromCache |-> ReadFrom(pass[p], "loyverse_variants"),
                            pc |-> "inventory"]))
                  /\ cache' = f.cache
  /\ UNCHANGED <<upstream, products, sync_logs, now, passes, changes>>

\* incrementalSync step 2.
FetchItemsDelta(p, O) ==
  /\ pass[p].pc = "items_delta"
  /\ \E o \in O :
       LET f == getItemsUpdatedAfter(pass[p].lastSync, o)
       IN  Set(p, IF f.threw THEN FetchFailed(pass[p])
                     ELSE With(pass[p], [items |-> f.data, itemsDelta |-> f.data,
                                         pc |-> "variants_delta"]))
  /\ UNCHANGED <<upstream, products, sync_logs, cache, now, passes, changes>>

\* The item ids of the variants that the item lookup does not hold.
ItemIdsNeeded(variants, itemsMap) ==
  {variants[k].item_id : k \in {m \in 1..Len(variants) :
                                  ~MapHas(itemsMap, variants[m].item_id)}}

\* incrementalSync step 3, up to the decision to repair.
FetchVariantsDelta(p, O) ==
  /\ pass[p].pc = "variants_delta"
  /\ \E o \in O :
       LET f == getVariantsUpdatedAfter(pass[p].lastSync, o)
       IN  Set(p, IF f.threw THEN FetchFailed(pass[p])
                     ELSE With(pass[p],
                           [variants |-> f.data,
                            itemsUpstream |-> upstream.items,
                            pc |-> IF ItemIdsNeeded(f.data, pass[p].items) # {}
                                     THEN "repair" ELSE "inventory"]))
  /\ UNCHANGED <<upstream, products, sync_logs, cache, now, passes, changes>>

\* incrementalSync: the full item fetch that fills in the missing items.
RepairItems(p, O) ==
  /\ pass[p].pc = "repair"
  /\ \E o \in O :
       LET f == getAllItems(pass[p].useCache, o)
           needed == ItemIdsNeeded(pass[p].variants, pass[p].items)
           called == With(pass[p], [repairs |-> pass[p].repairs + 1])
       IN  IF f.threw
             THEN /\ Set(p, FetchFailed(called))
                  /\ UNCHANGED cache
             ELSE /\ Set(p, With(called,
                           [items |-> pass[p].items \o
                                      SelectSeq(f.data, LAMBDA item : item.id \in needed),
                            itemsUpstream |-> upstream.items,
                            fromCache |-> ReadFrom(pass[p], "loyverse_items"),
                            pc |-> "inventory"]))
                  /\ cache' = f.cache
  /\ UNCHANGED <<upstream, products, sync_logs, now, passes, changes>>

(***************************************************************************)
(* The deletion diff of fullSync (step 7) and what follows the upsert.     *)
(***************************************************************************)
\* new Set(productsData.map(p => p.variant.sku || p.variant.variant_id)
\*                     .filter(sku => sku))
LoyverseSkus(productsData) ==
  {sku \in {EffectiveSku(productsData[k].variant) : k \in 1..Len(productsData)} :
     Truthy(sku)}

\* A diff that forgets the filter: every enumerated SKU is to be deleted.
SkusToDeleteAll(existingSkus, loyverseSkus) == existingSkus

\* existingSkus.filter(sku => !loyverseSkus.has(sku))
SkusToDelete(existingSkus, loyverseSkus) ==
  SelectSeq(existingSkus, LAMBDA sku : sku \notin loyverseSkus)

\* sync-service.ts:95-111, entered with the enumerated SKUs; table is the
\* products table at that moment (kept for the properties).
Diff(rec, existingSkus, table) ==
  LET skusToDelete == SkusToDelete(existingSkus, LoyverseSkus(rec.productsData))
  IN  With(rec, [skusToDelete |-> skusToDelete, i |-> 0, totalDeleted |-> 0,
                 diffRun |-> TRUE, diffTable |-> TableSkus(table),
                 pc |-> IF Len(skusToDelete) > 0 THEN "delete" ELSE "log_success"])

\* getAllProductSkus up to its first await (supabase-service.ts:117-130): the
\* cached list when the pass uses the cache and the file exists.
EnterSkus(rec, table) ==
  IF CacheHit(rec.useCache, "supabase_product_skus")
    THEN Diff(With(rec, [fromCache |-> ReadFrom(rec, "supabase_product_skus")]),
              CacheGet("supabase_product_skus"), table)
    ELSE With(rec, [pc |-> "skus", allSkus |-> <<>>, page |-> 0])

\* Every pass goes on to the deletion diff.
NextAlwaysDiff(mode) == "skus"

\* What a pass does once its products are written: fullSync goes on to step
\* 7, incrementalSync logs.
NextAfterUpsert(mode) == IF mode = "full" THEN "skus" ELSE "log_success"

\* A pass that logs as soon as its products are written.
AfterUpsertLogs(rec, table) == With(rec, [pc |-> "log_success"])

AfterUpsert(rec, table) ==
  IF NextAfterUpsert(rec.mode) = "skus" THEN EnterSkus(rec, table)
  ELSE With(rec, [pc |-> "log_success"])

\* Steps 4-6 up to the first upsert request: the inventory fetch, the join,
\* and upsertProducts' mapping and filter.
FetchInventory(p, O) ==
  /\ pass[p].pc = "inventory"
  /\ \E o \in O :
       LET f == getAllInventoryLevels(pass[p].useCache, o)
           productsData == JoinProducts(pass[p].variants, pass[p].items, f.data,
                                        pass[p].categories)
           validProducts == ValidProducts(productsData)
           joined == With(pass[p], [productsData |-> productsData,
                                    fromCache |-> ReadFrom(pass[p], "loyverse_inventory"),
                                    validProducts |-> validProducts,
                                    i |-> 0, totalUpserted |-> 0])
       IN  IF f.threw
             THEN /\ Set(p, FetchFailed(pass[p]))
                  /\ UNCHANGED cache
             ELSE /\ Set(p, IF Len(productsData) > 0 /\ Len(validProducts) > 0
                              THEN With(joined, [pc |-> "upsert"])
                              ELSE AfterUpsert(joined, products))
                  /\ cache' = f.cache
  /\ UNCHANGED <<upstream, products, sync_logs, now, passes, changes>>

\* An upsertProducts that logs the error of a batch and goes on with the
\* next one.
OnUpsertErrorContinue(sent, table) ==
  LET i == sent.i + ChunkSize
      skipped == With(sent, [i |-> i])
  IN  IF i < Len(sent.validProducts) THEN skipped
      ELSE AfterUpsert(With(skipped, [productsSynced |-> sent.totalUpserted]),
                       table)

\* An upsert batch returned an error (supabase-service.ts:61-64): the error
\* is thrown out of upsertProducts, so productsSynced is not assigned, and
\* the catch block of the pass takes over.
OnUpsertError(sent, table) == Catch(sent, "upsert")

\* One iteration of the loop of upsertProducts (supabase-service.ts:55-67),
\* and after the last one lines 69 and 86-88.
UpsertBatch(p, O) ==
  /\ pass[p].pc = "upsert"
  /\ \E o \in O :
       LET rec == pass[p]
           chunk == Slice(rec.validProducts, rec.i, rec.i + ChunkSize)
           failed == o = "error" \/ HasDuplicateSku(chunk)
           sent == With(rec,
                     [upsertSent |-> rec.upsertSent + 1,
                      upsertErrors |-> rec.upsertErrors + (IF failed THEN 1 ELSE 0),
                      upsertAfterError |-> rec.upsertAfterError +
                                           (IF rec.upsertErrors > 0 THEN 1 ELSE 0)])
           totalUpserted == rec.totalUpserted + Len(chunk)
           i == rec.i + ChunkSize
           table == UpsertRows(products, chunk)
           written == With(sent, [i |-> i, totalUpserted |-> totalUpserted,
                                  upsertedRows |-> rec.upsertedRows + Len(chunk)])
       IN  IF failed
             THEN /\ Set(p, OnUpsertError(sent, products))
                  /\ UNCHANGED products
             ELSE /\ products' = table
                  /\ Set(p, IF i < Len(rec.validProducts) THEN written
                            ELSE AfterUpsert(With(written,
                                   [productsSynced |-> totalUpserted]), table))
  /\ UNCHANGED <<upstream, sync_logs, cache, now, passes, changes>>

\* One page of getAllProductSkus (supabase-service.ts:132-150), and after the
\* last one the cache write and the diff.
EnumerateSkus(p, O) ==
  /\ pass[p].pc = "skus"
  /\ \E o \in O :
       LET rec == pass[p]
           data == SkuPage(products, rec.page * PageSize,
                           (rec.page + 1) * PageSize - 1)
           allSkus == rec.allSkus \o data
           hasMore == Len(data) > 0 /\ Len(data) = PageSize
       IN  IF o = "error"
                THEN /\ Set(p, Catch(rec, "select"))
                     /\ UNCHANGED cache
                ELSE IF hasMore
                  THEN /\ Set(p, With(rec, [allSkus |-> allSkus,
                                            page |-> rec.page + 1]))
                       /\ UNCHANGED cache
                  ELSE /\ Set(p, Diff(With(rec, [allSkus |-> allSkus]),
                                      allSkus, products))
                       /\ cache' = CacheWrite(cache, "supabase_product_skus",
                                               allSkus, o)
  /\ UNCHANGED <<upstream, products, sync_logs, now, passes, changes>>

\* One iteration of the loop of deleteProductsBySkus
\* (supabase-service.ts:172-188), and after the last one lines 190 and 107.
DeleteBatch(p, O) ==
  /\ pass[p].pc = "delete"
  /\ \E o \in O :
       LET rec == pass[p]
           chunk == Slice(rec.skusToDelete, rec.i, rec.i + ChunkSize)
           deletedCount == Cardinality(TableSkus(products) \cap Range(chunk))
           totalDeleted == rec.totalDeleted + deletedCount
           i == rec.i + ChunkSize
           sent == With(rec, [deleteSent |-> rec.deleteSent + 1])
       IN  IF o = "error"
             THEN /\ Set(p, Catch(sent, "delete"))
                  /\ UNCHANGED products
             ELSE /\ products' = DeleteRows(products, chunk)
                  /\ Set(p, With(sent,
                         [i |-> i, totalDeleted |-> totalDeleted,
                          productsDeleted |-> IF i < Len(rec.skusToDelete)
                                                THEN rec.productsDeleted
                                                ELSE totalDeleted,
                          pc |-> IF i < Len(rec.skusToDelete) THEN "delete"
                                 ELSE "log_success"]))
  /\ UNCHANGED <<upstream, sync_logs, cache, now, passes, changes>>

(***************************************************************************)
(* The ledger write and the return of the pass.                            *)
(***************************************************************************)
\* logSync (supabase-service.ts:94-113): the row the insert adds when the
\* store accepts it; completed_at is the time of the call.
logSync(ledger, syncType, productsSynced, errors, startedAt, status, o) ==
  IF o = "ok"
    THEN Append(ledger, [sync_type |-> syncType, products_synced |-> productsSynced,
                         errors |-> errors, started_at |-> startedAt,
                         completed_at |-> now, status |-> status])
    ELSE ledger

\* A logSync that throws the error of the insert.
LogSyncRaisesOnError(o) == o = "error"

\* Whether logSync throws when the insert returns an error: it only logs it
\* (supabase-service.ts:110-112).
LogSyncRaises(o) == FALSE

\* sync-service.ts:139-146 and 280-287.
Return(rec, completedAt) ==
  With(rec, [pc |-> "done", outcome |-> "returned", status |-> 200,
             result |-> [products_synced |-> rec.productsSynced,
                         products_deleted |-> rec.productsDeleted,
                         errors |-> rec.errors,
                         started_at |-> rec.startedAt,
                         completed_at |-> completedAt]])

\* A catch block that writes its entry with the status of the try block.
FailureStatusSuccess == "success"

\* The status of the entry the catch block writes.
FailureStatus == "failed"

\* The ledger write at the end of the try block (sync-service.ts:113-122,
\* 254-263).
LogSuccess(p, O) ==
  /\ pass[p].pc = "log_success"
  /\ \E o \in O :
       LET rec == pass[p]
           ledger == logSync(sync_logs, rec.mode, rec.productsSynced, rec.errors,
                             rec.startedAt, "success", o)
           wrote == Len(ledger) - Len(sync_logs)
           after == With(rec, [logged |-> rec.logged + wrote,
                               inserts |-> rec.inserts + 1])
       IN  sync_logs' = ledger
           /\ now' = now + wrote
           /\ Set(p, IF LogSyncRaises(o)
                       THEN Catch(after, "insert")
                       ELSE Return(after, now + wrote))
  /\ UNCHANGED <<upstream, products, cache, passes, changes>>

\* The ledger write of the catch block (sync-service.ts:129-137, 270-278).
\* An exception leaving the catch block of a fullSync that incrementalSync
\* awaits lands in the catch block of incrementalSync; any other leaves the
\* pass.
LogFailed(p, O) ==
  /\ pass[p].pc = "log_failed"
  /\ \E o \in O :
       LET rec == pass[p]
           ledger == logSync(sync_logs, rec.mode, rec.productsSynced, rec.errors,
                             rec.startedAt, FailureStatus, o)
           wrote == Len(ledger) - Len(sync_logs)
           after == With(rec, [logged |-> rec.logged + wrote,
                               inserts |-> rec.inserts + 1])
       IN  sync_logs' = ledger
           /\ now' = now + wrote
           /\ Set(p, IF ~LogSyncRaises(o) THEN Return(after, now + wrote)
                     ELSE IF rec.mode = "full" /\ rec.entry = "incremental"
                       THEN Catch(With(after, [mode |-> "incremental",
                                               errors |-> <<>>,
                                               productsSynced |-> 0,
                                               productsDeleted |-> 0]),
                                  "insert")
                     ELSE With(after, [pc |-> "done", outcome |-> "threw"]))
  /\ UNCHANGED <<upstream, products, cache, passes, changes>>

(***************************************************************************)
(* The upstream catalog changes while and between passes.                  *)
(***************************************************************************)
VariantIdsOf(variants) == {variants[k].variant_id : k \in 1..Len(variants)}

AddVariant(limit) ==
  /\ changes < limit
  /\ \E k \in 1..Len(VariantCatalog) :
       /\ VariantCatalog[k].variant_id \notin VariantIdsOf(upstream.variants)
       /\ upstream' = [upstream EXCEPT !.variants =
                         Append(@, [VariantCatalog[k] EXCEPT !.updated_at = now])]
  /\ changes' = changes + 1
  /\ now' = now + 1
  /\ UNCHANGED <<products, sync_logs, cache, pass, passes>>

RemoveVariant(limit) ==
  /\ changes < limit
  /\ \E k \in 1..Len(upstream.variants) :
       upstream' = [upstream EXCEPT !.variants =
                      SelectSeq(@, LAMBDA v : v.variant_id # upstream.variants[k].variant_id)]
  /\ changes' = changes + 1
  /\ now' = now + 1
  /\ UNCHANGED <<products, sync_logs, cache, pass, passes>>

UpdateVariant(limit) ==
  /\ changes < limit
  /\ \E k \in 1..Len(upstream.variants) :
       upstream' = [upstream EXCEPT !.variants[k] =
                      [@ EXCEPT !.default_price = @ + 1, !.updated_at = now]]
  /\ changes' = changes + 1
  /\ now' = now + 1
  /\ UNCHANGED <<products, sync_logs, cache, pass, passes>>

RemoveItem(limit) ==
  /\ changes < limit
  /\ \E k \in 1..Len(upstream.items) :
       upstream' = [upstream EXCEPT !.items =
                      SelectSeq(@, LAMBDA it : it.id # upstream.items[k].id)]
  /\ changes' = changes + 1
  /\ now' = now + 1
  /\ UNCHANGED <<products, sync_logs, cache, pass, passes>>

\* A cache file is damaged: it is still there, and get() can no longer read
\* or parse it.
DamageCache(limit) ==
  /\ changes < limit
  /\ \E key \in CacheKeys :
       /\ cache[key].present /\ cache[key].readable
       /\ cache' = [cache EXCEPT ![key] =
                      [present |-> TRUE, readable |-> FALSE, data |-> <<>>]]
  /\ changes' = changes + 1
  /\ UNCHANGED <<upstream, products, sync_logs, now, pass, passes>>

\* An item is renamed upstream.
UpdateItem(limit) ==
  /\ changes < limit
  /\ \E k \in 1..Len(upstream.items) :
       /\ upstream.items[k].item_name # "Renamed"
       /\ upstream' = [upstream EXCEPT !.items[k] =
                         [@ EXCEPT !.item_name = "Renamed", !.updated_at = now]]
  /\ changes' = changes + 1
  /\ now' = now + 1
  /\ UNCHANGED <<products, sync_logs, cache, pass, passes>>

ItemIdsOf(items) == {items[k].id : k \in 1..Len(items)}

AddItem(limit) ==
  /\ changes < limit
  /\ \E k \in 1..Len(ItemCatalog) :
       /\ ItemCatalog[k].id \notin ItemIdsOf(upstream.items)
       /\ upstream' = [upstream EXCEPT !.items =
                         Append(@, [ItemCatalog[k] EXCEPT !.updated_at = now])]
  /\ changes' = changes + 1
  /\ now' = now + 1
  /\ UNCHANGED <<products, sync_logs, cache, pass, passes>>

(***************************************************************************)
(* The specifications: one pass at a time (the trigger endpoint is called  *)
(* again only after it answered), the upstream catalog changing meanwhile. *)
(* In Spec a request to the upstream API or to the store can fail; in      *)
(* SpecReliable none does, and the store refuses only what it must; in     *)
(* SpecDrift none does either, and the catalog changes more than once.     *)
(***************************************************************************)
Step(p, O, limit) ==
  \/ \E type \in Types, configured \in BOOLEAN, useCache \in BOOLEAN :
       Start(p, type, configured, useCache, limit)
  \/ \E type \in Types, configured \in BOOLEAN : Reject(p, type, configured, limit)
  \/ \E configured \in BOOLEAN : Stats(p, configured, limit)
  \/ ReadLastSync(p, O)
  \/ FetchCategories(p, O)
  \/ FetchItems(p, O)
  \/ FetchVariants(p, O)
  \/ FetchItemsDelta(p, O)
  \/ FetchVariantsDelta(p, O)
  \/ RepairItems(p, O)
  \/ FetchInventory(p, O)
  \/ UpsertBatch(p, O)
  \/ EnumerateSkus(p, O)
  \/ DeleteBatch(p, O)
  \/ LogSuccess(p, O)
  \/ LogFailed(p, O)

Environment(limit) ==
  \/ AddVariant(limit)
  \/ RemoveVariant(limit)
  \/ UpdateVariant(limit)
  \/ RemoveItem(limit)
  \/ AddItem(limit)

Next == Step(1, Outcomes, MaxPasses) \/ Environment(MaxChanges)

Spec == Init /\ [][Next]_vars

NextReliable == Step(1, Reliable, MaxReliablePasses) \/ Environment(MaxChanges)

SpecReliable == Init /\ [][NextReliable]_vars

NextDrift == Step(1, Reliable, MaxDriftPasses) \/ Environment(MaxDriftChanges)

SpecDrift == Init /\ [][NextDrift]_vars

\* Three passes, one at a time, none of their requests failing, while
\* variants are removed from and added to the upstream catalog and items
\* are renamed.
NextStale ==
  \/ Step(1, Reliable, MaxStalePasses)
  \/ AddVariant(MaxStaleChanges)
  \/ RemoveVariant(MaxStaleChanges)
  \/ UpdateItem(MaxStaleChanges)

SpecStale == Init /\ [][NextStale]_vars

\* Two requests served at the same time: express runs handleSync for every
\* request that arrives, and the passes take turns at their awaits.  Both
\* are full syncs without cache, no request of theirs fails, and variants
\* come and go upstream.
FullSyncSteps(p, limit) ==
  \/ Start(p, "full", TRUE, FALSE, limit)
  \/ FetchCategories(p, Reliable)
  \/ FetchItems(p, Reliable)
  \/ FetchVariants(p, Reliable)
  \/ FetchInventory(p, Reliable)
  \/ UpsertBatch(p, Reliable)
  \/ EnumerateSkus(p, Reliable)
  \/ DeleteBatch(p, Reliable)
  \/ LogSuccess(p, Reliable)
  \/ LogFailed(p, Reliable)

NextRace ==
  \/ \E p \in Procs : FullSyncSteps(p, MaxRacePasses)
  \/ AddVariant(MaxRaceChanges)
  \/ RemoveVariant(MaxRaceChanges)

SpecRace == Init /\ [][NextRace]_vars

(***************************************************************************)
(* One upstream collection fetch, page by page (loyverse-client.ts:42-61,  *)
(* 82-100, 121-139, 159-177, 189-215: the same loop six times).  The       *)
(* server is any mapping from the cursor of a request (none for the first) *)
(* to a response: a list of records, or none, and a cursor, or none.       *)
(***************************************************************************)
FetchCalls ==
  {"getAllItems", "getAllVariants", "getAllInventoryLevels", "getAllCategories",
   "getItemsUpdatedAfter", "getVariantsUpdatedAfter"}

Path(call) ==
  CASE call \in {"getAllItems", "getItemsUpdatedAfter"}       -> "/items"
    [] call \in {"getAllVariants", "getVariantsUpdatedAfter"} -> "/variants"
    [] call = "getAllInventoryLevels"                         -> "/inventory"
    [] OTHER                                                  -> "/categories"

\* The two delta fetches send updated_at_min with every request.
SendsUpdatedAtMin(call) ==
  call \in {"getItemsUpdatedAfter", "getVariantsUpdatedAfter"}

PageCursors == {"c1", "c2"}

\* response.data: has tells whether the list of the collection is there.
Responses ==
  [has : {TRUE}, records : {<<1>>, <<2, 3>>}, cursor : {Null, ""} \cup PageCursors]
  \cup [has : {FALSE}, records : {<<>>}, cursor : {Null, ""} \cup PageCursors]

Servers == [{Null} \cup PageCursors -> Responses]

\* A loop that stops after the first page.
HasMoreNever(cursor) == FALSE

\* while (cursor)
HasMore(cursor) == Truthy(cursor)

\* One iteration of the do-while loop, and the return after the last one.
RequestPage(p) ==
  /\ pass[p].pc = "paging"
  /\ ~pass[p].paging.returned
  /\ Len(pass[p].paging.requests) < MaxRequests
  /\ LET pg == pass[p].paging
         params == [path |-> Path(pg.call), limit |-> 250,
                    updated_at_min |-> SendsUpdatedAtMin(pg.call),
                    cursor |-> IF Truthy(pg.cursor) THEN pg.cursor ELSE Null]
         response == pg.server[params.cursor]
         records == IF response.has THEN pg.records \o response.records
                    ELSE pg.records
         cursor == response.cursor
     IN  Set(p, With(pass[p],
           [paging |-> With(pg, [requests |-> Append(pg.requests, params),
                                 responses |-> Append(pg.responses, response),
                                 records |-> records, cursor |-> cursor,
                                 returned |-> ~HasMore(cursor)])]))
  /\ UNCHANGED <<upstream, products, sync_logs, cache, now, passes, changes>>

\* One of the six fetches is called, against any server.
InitPages ==
  /\ upstream = [items |-> ItemCatalog, variants |-> SubSeq(VariantCatalog, 1, 3),
                 inventory |-> InventoryCatalog, categories |-> CategoryCatalog]
  /\ products = {}
  /\ sync_logs = <<>>
  /\ cache = [k \in CacheKeys |-> NoFile]
  /\ now = 1
  /\ \E call \in FetchCalls, server \in Servers :
       pass = [p \in Procs |->
                 IF p = 1
                   THEN With(IdlePass,
                          [pc |-> "paging",
                           paging |-> With(NoPaging, [call |-> call,
                                                      server |-> server])])
                   ELSE IdlePass]
  /\ passes = 0
  /\ changes = 0

NextPages == RequestPage(1)

SpecPages == InitPages /\ [][NextPages]_vars

(***************************************************************************)
(* getAllProductSkus on its own (supabase-service.ts:127-157): a full sync *)
(* without cache arrives at step 7 with any products table, and no other   *)
(* pass is in progress.                                                    *)
(***************************************************************************)
\* The rows a products table can hold: any sku, two quantities.
StoredRows ==
  {[sku |-> SkuOrder[k], name |-> "N", category |-> Null, desc |-> Null,
    price |-> 10, qty |-> q] : k \in 1..Len(SkuOrder), q \in {0, 1}}

\* sku is the primary key of the table.
Tables ==
  {t \in SUBSET StoredRows : \A r1, r2 \in t : r1.sku = r2.sku => r1 = r2}

InitSkus ==
  /\ upstream = [items |-> ItemCatalog, variants |-> SubSeq(VariantCatalog, 1, 3),
                 inventory |-> InventoryCatalog, categories |-> CategoryCatalog]
  /\ products \in Tables
  /\ sync_logs = <<>>
  /\ cache = [k \in CacheKeys |-> NoFile]
  /\ now = 1
  /\ pass = [p \in Procs |->
               IF p = 1
                 THEN EnterSkus(With(BeginFull(IdlePass),
                                  [entry |-> "full", type |-> "full",
                                   configured |-> TRUE, useCache |-> FALSE,
                                   tableAtStart |-> products,
                                   srcAtStart |-> upstream]),
                                products)
                 ELSE IdlePass]
  /\ passes = 1
  /\ changes = 0

NextSkus == EnumerateSkus(1, Reliable)

SpecSkus == InitSkus /\ [][NextSkus]_vars /\ WF_vars(NextSkus)

\* Full syncs, with and without cache, one at a time; no request fails, but
\* a cache file can be damaged between two calls and a cache write can fail.
CacheSteps(p, limit) ==
  \/ \E useCache \in BOOLEAN : Start(p, "full", TRUE, useCache, limit)
  \/ FetchCategories(p, CacheOutcomes)
  \/ FetchItems(p, CacheOutcomes)
  \/ FetchVariants(p, CacheOutcomes)
  \/ FetchInventory(p, CacheOutcomes)
  \/ UpsertBatch(p, Reliable)
  \/ EnumerateSkus(p, CacheOutcomes)
  \/ DeleteBatch(p, Reliable)
  \/ LogSuccess(p, Reliable)
  \/ LogFailed(p, Reliable)

NextCache ==
  \/ CacheSteps(1, MaxCachePasses)
  \/ DamageCache(MaxCacheChanges)
  \/ RemoveVariant(MaxCacheChanges)

SpecCache == Init /\ [][NextCache]_vars

(***************************************************************************)
(* Properties.  An invocation is over when its pc is "done"; the history   *)
(* fields of its record say what it did.                                   *)
(***************************************************************************)
Invocations == {p \in Procs : pass[p].pc # "idle"}

Finished == {p \in Procs : pass[p].pc = "done"}

LastEntry == sync_logs[Len(sync_logs)]

\* C1, as stated: every invocation of fullSync or incrementalSync, whatever
\* fails in it (the ledger insert included) and also when incrementalSync
\* degrades to fullSync, has added exactly one ledger entry when it is over,
\* and that entry has a completed_at that is not null.
C1_ExactlyOneEntry ==
  \A p \in Finished :
    /\ pass[p].logged = 1
    /\ Len(sync_logs) = pass[p].ledgerAtStart + 1
    /\ LastEntry.completed_at # 0

\* C1, amended: every invocation makes exactly one ledger insert, whatever
\* fails in it and also when incrementalSync degrades to fullSync; it adds
\* one entry, with a completed_at that is not null, when the store accepts
\* the insert and none when the insert returns an error; never two.
C1_OneInsert ==
  \A p \in Invocations :
    /\ pass[p].logged <= pass[p].inserts
    /\ pass[p].inserts <= 1
    /\ pass[p].pc = "done" =>
         /\ pass[p].inserts = 1
         /\ Len(sync_logs) = pass[p].ledgerAtStart + pass[p].logged
         /\ pass[p].logged = 1 =>
              /\ LastEntry.completed_at # 0
              /\ LastEntry.started_at = pass[p].startedAt
              /\ LastEntry.sync_type = pass[p].mode

\* A degraded incrementalSync in which a step failed is over, and the store
\* refused the failure entry.
C1_Witness ==
  \E p \in Finished :
    /\ pass[p].entry = "incremental" /\ pass[p].mode = "full"
    /\ pass[p].errors # <<>>
    /\ pass[p].inserts = 1 /\ pass[p].logged = 0

\* C2, as stated: in a full sync the SKUs submitted for deletion are exactly
\* the SKUs persisted in the products table at the time of the diff minus the
\* non-empty effective SKUs of the pass's output.
C2_DeletionSetIsTableMinusOutput ==
  \A p \in Invocations :
    pass[p].diffRun =>
      Range(pass[p].skusToDelete) =
        pass[p].diffTable \ LoyverseSkus(pass[p].productsData)

\* C3, as stated: a fullSync that follows a fullSync, both without error and
\* with the upstream data the same throughout, leaves the products table as
\* the first run left it, and its deletion set is empty.
C3_FullSyncIdempotent ==
  \A p \in Finished :
    (pass[p].repeat /\ pass[p].errors = <<>> /\ pass[p].srcAtStart = upstream) =>
      /\ products = pass[p].tableAtStart
      /\ pass[p].skusToDelete = <<>>

\* The SKUs of the rows the invocation of p has removed from the products
\* table so far.
RemovedSkus(p) == TableSkus(pass[p].tableAtStart) \ TableSkus(products)

\* An incrementalSync that found no successful sync in the ledger (or could
\* not read it) and runs fullSync.
Degraded(p) == pass[p].entry = "incremental" /\ pass[p].mode = "full"

\* C4, as stated: when no successful sync is recorded, an incrementalSync
\* request performs a full sync and removes no row from the products table.
C4_DegradeDeletesNothing ==
  \A p \in Invocations :
    Degraded(p) => RemovedSkus(p) = {} /\ pass[p].deleteSent = 0

\* C4, amended: when no successful sync is recorded, an incrementalSync
\* request performs a full sync, deletion diff included (it is not an error;
\* its ledger entry is of kind full): it removes from the products table
\* only rows whose SKU the diff listed and that is not an effective SKU of
\* the pass's output.
C4_DegradeIsFullSync ==
  \A p \in Invocations :
    Degraded(p) =>
      /\ RemovedSkus(p) \subseteq Range(pass[p].skusToDelete)
      /\ RemovedSkus(p) \cap LoyverseSkus(pass[p].productsData) = {}
      /\ (pass[p].pc = "done" /\ pass[p].errors = <<>>) => pass[p].diffRun
      /\ (pass[p].pc = "done" /\ pass[p].logged = 1) =>
           LastEntry.sync_type = "full"

\* A degraded incrementalSync is over without error and has removed a row,
\* while the ledger held no successful sync when it started.
C4_Witness ==
  \E p \in Finished :
    /\ Degraded(p) /\ pass[p].errors = <<>> /\ pass[p].logged = 1
    /\ RemovedSkus(p) # {}
    /\ LastSuccess(SubSeq(sync_logs, 1, pass[p].ledgerAtStart)) = 0

\* An incrementalSync that found a watermark and takes the delta path.
DeltaPath(p) == pass[p].entry = "incremental" /\ pass[p].lastSync # 0

\* C5: an incrementalSync that finds a watermark never runs the deletion
\* diff: it sends no delete to the store, and every row that was in the
\* products table before the pass is still there, whatever the upstream
\* holds.
C5_DeltaPathNeverDeletes ==
  \A p \in Invocations :
    DeltaPath(p) =>
      /\ pass[p].mode = "incremental"
      /\ ~pass[p].diffRun
      /\ pass[p].deleteSent = 0
      /\ RemovedSkus(p) = {}

\* A delta pass is over and has written rows, and the table held, and still
\* holds, a row whose SKU is not in the output of the pass: a row the diff
\* of a full sync would have listed.
C5_Witness ==
  \E p \in Finished :
    /\ DeltaPath(p) /\ pass[p].errors = <<>> /\ pass[p].upsertedRows > 0
    /\ \E sku \in TableSkus(pass[p].tableAtStart) :
         /\ sku \notin LoyverseSkus(pass[p].productsData)
         /\ sku \in TableSkus(products)

\* C6: no failure leaves a pass as an exception: whichever request fails (an
\* upstream fetch, an upsert batch, the SKU enumeration, a delete batch, the
\* ledger insert, also the one the catch block makes), fullSync and
\* incrementalSync return a SyncResult.
C6_AlwaysReturns ==
  \A p \in Invocations :
    /\ pass[p].outcome # "threw"
    /\ pass[p].pc = "done" =>
         /\ pass[p].outcome = "returned"
         /\ pass[p].result.errors = pass[p].errors
         /\ pass[p].result.products_synced = pass[p].productsSynced
         /\ pass[p].result.products_deleted = pass[p].productsDeleted
         /\ pass[p].result.started_at = pass[p].startedAt
         /\ pass[p].result.completed_at >= pass[p].startedAt

\* A pass in which a step failed and the store then refused the failure
\* entry has returned its result.
C6_Witness ==
  \E p \in Finished :
    /\ pass[p].errors # <<>> /\ pass[p].inserts = 1 /\ pass[p].logged = 0
    /\ pass[p].outcome = "returned" /\ pass[p].result.errors # <<>>

\* The rows the upsert batches of the invocation of p wrote before one of
\* them failed.
WrittenBeforeFailure(p) ==
  Slice(pass[p].validProducts, 0, (pass[p].upsertSent - 1) * ChunkSize)

\* C7, as stated: when a pass fails part-way, the products_synced of its
\* result and of its status = failed entry is the number of rows the upsert
\* batches wrote before the failure.
C7_FailedCountIsRowsWritten ==
  \A p \in Finished :
    pass[p].errors # <<>> =>
      /\ pass[p].result.products_synced = pass[p].upsertedRows
      /\ pass[p].logged = 1 => LastEntry.products_synced = pass[p].upsertedRows

C9_ContinuesAfterBatchError ==
  \A p \in Finished :
    pass[p].upsertErrors > 0 =>
      pass[p].upsertSent * ChunkSize >= Len(pass[p].validProducts)

\* C10: a failed upstream fetch (categories, items, variants, inventory,
\* the repair fetch of all items, the delta fetches) ends the pass before
\* any write to the products table: the table is as the pass found it, the
\* error list of the result holds exactly one message, and the ledger entry
\* has status = failed.
C10_FetchFailureAborts ==
  \A p \in Invocations :
    pass[p].fetchErrors > 0 =>
      /\ pass[p].fetchErrors = 1
      /\ pass[p].pc \in {"log_failed", "done"}
      /\ products = pass[p].tableAtStart
      /\ pass[p].upsertSent = 0 /\ pass[p].deleteSent = 0 /\ ~pass[p].diffRun
      /\ Len(pass[p].errors) = 1
      /\ pass[p].pc = "done" =>
           /\ Len(pass[p].result.errors) = 1
           /\ pass[p].result.products_synced = 0
           /\ pass[p].logged = 1 =>
                /\ LastEntry.status = "failed"
                /\ Len(LastEntry.errors) = 1

\* The repair fetch of a delta pass failed while the products table held
\* rows, and the pass is over with its entry written.
C10_Witness ==
  \E p \in Finished :
    /\ pass[p].fetchErrors = 1 /\ DeltaPath(p)
    /\ pass[p].variants # <<>>
    /\ pass[p].tableAtStart # {} /\ pass[p].logged = 1

\* The completed_at of the status = success entries of a ledger, and the
\* latest of them (0 when there is none).
SuccessTimes(ledger) ==
  {ledger[k].completed_at : k \in {m \in 1..Len(ledger) : ledger[m].status = "success"}}

LatestSuccess(ledger) ==
  IF SuccessTimes(ledger) = {} THEN 0
  ELSE CHOOSE t \in SuccessTimes(ledger) : \A u \in SuccessTimes(ledger) : u <= t

\* The watermark of a delta pass is the completed_at of the most recent
\* status = success entry of the ledger the pass found.
WatermarkIsLatestSuccess ==
  \A p \in Invocations :
    DeltaPath(p) =>
      pass[p].lastSync =
        LatestSuccess(SubSeq(sync_logs, 1, pass[p].ledgerAtStart))

\* A step never lowers the watermark, and a step that adds a status = failed
\* entry leaves it as it was.
WatermarkStep ==
  /\ LatestSuccess(sync_logs') >= LatestSuccess(sync_logs)
  /\ (Len(sync_logs') > Len(sync_logs) /\ sync_logs'[Len(sync_logs')].status = "failed")
       => LatestSuccess(sync_logs') = LatestSuccess(sync_logs)

\* C11: the watermark an incremental pass uses is the completed_at of the
\* most recent ledger entry with status = success; entries with status =
\* failed never change it, and over any sequence of passes it never
\* decreases.
C11_Watermark == [](WatermarkIsLatestSuccess) /\ [][WatermarkStep]_vars

\* A delta pass used the watermark of the earlier successful pass, failed,
\* and its status = failed entry, the latest of the ledger, left the
\* watermark where it was.
C11_Witness ==
  \E p \in Finished :
    /\ DeltaPath(p) /\ pass[p].errors # <<>> /\ pass[p].logged = 1
    /\ LastEntry.status = "failed"
    /\ LastEntry.completed_at > pass[p].lastSync
    /\ LatestSuccess(sync_logs) = pass[p].lastSync

\* A delta pass whose item lookup is complete and whose fetches all
\* answered.
LookupComplete(p) ==
  /\ DeltaPath(p) /\ pass[p].fetchErrors = 0
  /\ pass[p].pc \in {"inventory", "upsert", "log_success", "log_failed", "done"}

\* The variants of the output of the pass of p.
OutputVariants(p) ==
  {pass[p].productsData[k].variant : k \in 1..Len(pass[p].productsData)}

\* C12, as stated: when an updated variant names an item the delta item
\* fetch did not return, a delta pass makes exactly one full item fetch and
\* adds only the needed items to the lookup, so that every updated variant
\* whose item exists upstream is resolved and is in the output; when no
\* item is missing it makes no full item fetch.
C12_RepairResolves ==
  \A p \in Invocations :
    LookupComplete(p) =>
      LET needed == ItemIdsNeeded(pass[p].variants, pass[p].itemsDelta)
      IN  /\ pass[p].repairs = (IF needed = {} THEN 0 ELSE 1)
          /\ ItemIdsOf(pass[p].items) \subseteq ItemIdsOf(pass[p].itemsDelta) \cup needed
          /\ \A v \in Range(pass[p].variants) :
               v.item_id \in ItemIdsOf(pass[p].itemsUpstream) =>
                 /\ MapHas(pass[p].items, v.item_id)
                 /\ pass[p].pc # "inventory" => v \in OutputVariants(p)

\* A pass that has made its join.
Joined(p) ==
  /\ pass[p].fetchErrors = 0
  /\ pass[p].pc \in {"upsert", "skus", "delete", "log_success", "log_failed", "done"}

\* The variants the pass of p fetched whose item is in its item lookup, and
\* those whose item is not.
Resolvable(p) ==
  SelectSeq(pass[p].variants, LAMBDA v : v.item_id \in ItemIdsOf(pass[p].items))

Orphans(p) ==
  SelectSeq(pass[p].variants, LAMBDA v : v.item_id \notin ItemIdsOf(pass[p].items))

\* C13: a variant whose item is not in the item lookup is dropped from the
\* output and is no error: the output holds exactly one product per variant
\* whose item_id is in the lookup, and a pass in which nothing else goes
\* wrong ends with an empty error list and a status = success entry.
C13_OrphansDropped ==
  \A p \in Invocations :
    Joined(p) =>
      /\ [k \in 1..Len(pass[p].productsData) |-> pass[p].productsData[k].variant]
           = Resolvable(p)
      /\ \A k \in 1..Len(pass[p].productsData) :
           pass[p].productsData[k].item.id = pass[p].productsData[k].variant.item_id
      /\ (pass[p].pc = "done" /\ pass[p].upsertErrors = 0) =>
           /\ pass[p].errors = <<>> /\ pass[p].result.errors = <<>>
           /\ pass[p].logged = 1 /\ LastEntry.status = "success"

\* A pass that fetched a variant without item and variants with one is over:
\* it wrote the rows of the others and logged success.
C13_Witness ==
  \E p \in Finished :
    /\ Orphans(p) # <<>> /\ Resolvable(p) # <<>>
    /\ pass[p].upsertedRows = Len(Resolvable(p))
    /\ pass[p].errors = <<>> /\ LastEntry.status = "success"

\* The SKU a variant is to be persisted under: its sku when that is not
\* empty, its identifier otherwise.
SkuOf(variant) ==
  IF variant.sku \notin {Null, ""} THEN variant.sku ELSE variant.variant_id

\* The products of the output of the pass of p that have such a SKU.
Persistable(p) ==
  SelectSeq(pass[p].productsData, LAMBDA pd : SkuOf(pd.variant) \notin {Null, ""})

\* The sum of in_stock (in halves of a unit) over the records of a variant.
RECURSIVE StockSum(_, _)
StockSum(records, variant_id) ==
  IF records = <<>> THEN 0
  ELSE (IF Head(records).variant_id = variant_id THEN Head(records).in_stock ELSE 0)
       + StockSum(Tail(records), variant_id)

\* qty is the sum, in whole units.
IsExactSum(qty, variant_id) == 2 * qty = StockSum(upstream.inventory, variant_id)

\* qty is the largest whole number of units that is not above the sum.
IsFlooredSum(qty, variant_id) ==
  /\ 2 * qty <= StockSum(upstream.inventory, variant_id)
  /\ StockSum(upstream.inventory, variant_id) < 2 * qty + 2

\* C14, as stated: the qty of the row of every variant of the output is the
\* exact sum of in_stock over the inventory records of that variant.
C14_QtyIsExactSum ==
  \A p \in Invocations :
    Joined(p) =>
      /\ Len(pass[p].validProducts) = Len(Persistable(p))
      /\ \A k \in 1..Len(pass[p].validProducts) :
           IsExactSum(pass[p].validProducts[k].qty,
                      Persistable(p)[k].variant.variant_id)

\* C14, amended: the qty of the row of every variant of the output is the
\* sum of in_stock over all inventory records of that variant_id, over all
\* stores, rounded down to a whole number (Math.floor), zero and negative
\* sums included and not clamped; a variant without inventory record gets
\* 0; records of a variant_id that no variant has change no row.  The rows
\* of the products table are such rows.
C14_QtyIsFlooredSum ==
  /\ \A p \in Invocations :
       Joined(p) =>
         /\ Len(pass[p].validProducts) = Len(Persistable(p))
         /\ \A k \in 1..Len(pass[p].validProducts) :
              IsFlooredSum(pass[p].validProducts[k].qty,
                           Persistable(p)[k].variant.variant_id)
  /\ \A row \in products :
       \E v \in Range(VariantCatalog) :
         EffectiveSku(v) = row.sku /\ IsFlooredSum(row.qty, v.variant_id)

\* A pass is over without error that sent a row whose sum over two stores is
\* not whole, a row with a negative sum and a row of a variant without
\* inventory record, while a record of the inventory names no variant.
C14_Witness ==
  \E p \in Finished :
    /\ pass[p].errors = <<>>
    /\ \E k \in 1..Len(pass[p].validProducts) :
         ~IsExactSum(pass[p].validProducts[k].qty,
                     Persistable(p)[k].variant.variant_id)
    /\ \E row \in Range(pass[p].validProducts) : row.qty < 0
    /\ \E k \in 1..Len(pass[p].validProducts) :
         /\ pass[p].validProducts[k].qty = 0
         /\ \A r \in Range(upstream.inventory) :
              r.variant_id # Persistable(p)[k].variant.variant_id
    /\ \E r \in Range(upstream.inventory) :
         r.variant_id \notin VariantIdsOf(VariantCatalog)
    /\ \E row \in products : row.qty < 0

\* C15: every row a pass writes to the products table has a sku that is not
\* empty: the sku of the variant when that is not empty, the identifier of
\* the variant otherwise; a product without such a SKU is not sent to the
\* store and not counted in products_synced.
C15_RowsHaveEffectiveSku ==
  /\ \A p \in Invocations :
       Joined(p) =>
         /\ Len(pass[p].validProducts) = Len(Persistable(p))
         /\ \A k \in 1..Len(pass[p].validProducts) :
              /\ pass[p].validProducts[k].sku = SkuOf(Persistable(p)[k].variant)
              /\ pass[p].validProducts[k].sku \notin {Null, ""}
         /\ pass[p].upsertedRows <= Len(Persistable(p))
         /\ (pass[p].pc = "done" /\ pass[p].errors = <<>>) =>
              /\ pass[p].upsertedRows = Len(Persistable(p))
              /\ pass[p].result.products_synced = Len(Persistable(p))
  /\ \A row \in products :
       /\ row.sku \notin {Null, ""}
       /\ \E v \in Range(VariantCatalog) : row.sku = SkuOf(v)

\* A pass is over without error whose output held a variant with a sku, a
\* variant with only an identifier and a variant with neither: it wrote and
\* counted the rows of the first two.
C15_Witness ==
  \E p \in Finished :
    /\ pass[p].errors = <<>>
    /\ Len(Persistable(p)) < Len(pass[p].productsData)
    /\ \E pd \in Range(Persistable(p)) : pd.variant.sku = SkuOf(pd.variant)
    /\ \E pd \in Range(Persistable(p)) : pd.variant.sku # SkuOf(pd.variant)
    /\ pass[p].result.products_synced = Len(Persistable(p))
    /\ Cardinality(products) = Len(Persistable(p))

\* Two products of the output of the pass of p have the same SKU.
Collision(p) ==
  \E k, m \in 1..Len(Persistable(p)) :
    k < m /\ SkuOf(Persistable(p)[k].variant) = SkuOf(Persistable(p)[m].variant)

\* C16, as stated: the records handed to the store have a unique sku: when
\* two variants of a pass have the same effective SKU the later one in
\* iteration order replaces the earlier, so that the store is handed one
\* record for that SKU, and after the pass the persisted row is the
\* flattening of the later variant.
C16_UniqueSkuLastWins ==
  \A p \in Invocations :
    Joined(p) =>
      /\ \A k, m \in 1..Len(pass[p].validProducts) :
           pass[p].validProducts[k].sku = pass[p].validProducts[m].sku => k = m
      /\ (pass[p].pc = "done" /\ Collision(p)) =>
           \A k \in 1..Len(Persistable(p)) :
             (\A m \in 1..Len(Persistable(p)) :
                SkuOf(Persistable(p)[m].variant) = SkuOf(Persistable(p)[k].variant)
                  => m <= k)
             => ToSupabaseProduct(Persistable(p)[k]) \in products

\* What a fullSync that reads nothing from the cache computes from the
\* upstream catalog src and the products table it finds, when no request
\* fails: its output, the rows it sends, the table after the upserts, the
\* SKUs it enumerates, its deletion set and the table it leaves.
UncachedOutput(src) ==
  JoinProducts(src.variants, src.items, src.inventory, src.categories)

UncachedRows(src) == ValidProducts(UncachedOutput(src))

UncachedUpserted(src, table) == UpsertRows(table, UncachedRows(src))

UncachedDeletionSet(src, table) ==
  SkusToDelete(SkuPage(UncachedUpserted(src, table), 0, Len(SkuOrder)),
               LoyverseSkus(UncachedOutput(src)))

UncachedTable(src, table) ==
  DeleteRows(UncachedUpserted(src, table), UncachedDeletionSet(src, table))

\* C17, as stated: whatever the upstream catalog, the products table and
\* the cache hold, a fullSync with caching enabled leaves the products table
\* and computes the deletion set that the same fullSync leaves and computes
\* with caching disabled.
C17_CacheIsAdvisory ==
  \A p \in Finished :
    ( /\ pass[p].entry = "full" /\ pass[p].useCache
      /\ pass[p].errors = <<>>
      /\ pass[p].srcAtStart = upstream
      /\ \A k, m \in 1..Len(UncachedRows(upstream)) :
           UncachedRows(upstream)[k].sku = UncachedRows(upstream)[m].sku => k = m )
    => /\ products = UncachedTable(upstream, pass[p].tableAtStart)
       /\ pass[p].skusToDelete =
            UncachedDeletionSet(upstream, pass[p].tableAtStart)

\* C18, as stated: no two passes share mutable state: a pass sees of another
\* pass only what the store and the upstream hold; nothing a pass wrote
\* elsewhere, such as a cache entry, is read by a later pass.  (The cache is
\* empty before the first pass, so a file a pass reads was written by an
\* earlier pass.)
C18_NoSharedState ==
  \A p \in Invocations : pass[p].fromCache = {}

\* A pass of the process has been started and not been replaced by a request
\* answered without one.
Started(p) == pass[p].pc \notin {"idle", "answered"}

\* Nothing of a pass has happened for the request the process answered: no
\* fetch, no batch, no ledger insert.
NothingDone(p) ==
  /\ pass[p].categories = <<>> /\ pass[p].items = <<>> /\ pass[p].variants = <<>>
  /\ pass[p].fetchErrors = 0 /\ pass[p].fromCache = {}
  /\ pass[p].upsertSent = 0 /\ pass[p].deleteSent = 0 /\ ~pass[p].diffRun
  /\ pass[p].inserts = 0 /\ pass[p].logged = 0

C19_State ==
  \A p \in Procs :
    /\ Started(p) =>
         pass[p].configured /\ pass[p].type \in {"full", "incremental"}
    /\ pass[p].pc = "answered" =>
         /\ NothingDone(p)
         /\ ~pass[p].configured => pass[p].status = 500
         /\ ( pass[p].configured
              /\ pass[p].type \notin {"full", "incremental", "stats"} )
            => pass[p].status = 400
         /\ pass[p].status \in {400, 500}
            => ~pass[p].configured
               \/ pass[p].type \notin {"full", "incremental", "stats"}

C19_Step ==
  \A p \in Procs :
    (passes' = passes + 1 /\ pass'[p] # pass[p] /\ pass'[p].pc = "answered")
    => UNCHANGED <<upstream, products, sync_logs, cache>>

\* C19: a pass is started only for a request with a valid configuration and
\* type full or incremental; a request of another type is answered 400 and a
\* request made with a credential missing is answered 500, and in both cases
\* nothing is fetched, no row of the products table is written and no ledger
\* entry is made; a request of type stats writes nothing either.
C19_OnlyValidRequestsStartAPass ==
  [](C19_State) /\ [][C19_Step]_vars

\* After a pass that left rows and a ledger entry, a request of an unknown
\* type has been answered 400.
C19_Witness ==
  \E p \in Procs :
    /\ pass[p].pc = "answered" /\ pass[p].status = 400
    /\ pass[p].configured /\ pass[p].type = "other"
    /\ products # {} /\ sync_logs # <<>>

\* The place of a step in the order of fullSync.
Rank(pc) ==
  CASE pc = "last_sync"   -> 0
    [] pc = "categories"  -> 1
    [] pc = "items"       -> 2
    [] pc = "variants"    -> 3
    [] pc = "inventory"   -> 4
    [] pc = "upsert"      -> 5
    [] pc = "skus"        -> 6
    [] pc = "delete"      -> 7
    [] pc = "log_success" -> 8
    [] pc = "log_failed"  -> 8
    [] pc = "done"        -> 9
    [] OTHER              -> 0

\* Every upsert batch of the pass has been sent and has completed without
\* error.
UpsertsComplete(rec) ==
  /\ rec.upsertErrors = 0
  /\ rec.upsertedRows = Len(rec.validProducts)
  /\ rec.upsertSent * ChunkSize >= Len(rec.validProducts)

\* The persisted SKUs have been enumerated and every delete batch of the
\* pass has been sent.
DeletesComplete(rec) ==
  /\ rec.diffRun
  /\ rec.deleteSent * ChunkSize >= Len(rec.skusToDelete)

\* The step adds an entry with status success to the ledger.
LogsSuccess ==
  /\ Len(sync_logs') = Len(sync_logs) + 1
  /\ sync_logs'[Len(sync_logs')].status = "success"

\* One step of a pass that runs fullSync (started as such or degraded to).
FullSyncStep(p) ==
  /\ passes' = passes
  /\ pass'[p] # pass[p]
  /\ pass[p].mode = "full"

C20_Step ==
  \A p \in Procs :
    \* a fullSync begins with the category fetch
    /\ ( passes' = passes + 1 /\ pass'[p].entry = "full"
         /\ pass'[p].pc \notin {"idle", "answered"} )
       => pass'[p].pc = "categories"
    /\ FullSyncStep(p) =>
         LET rec == pass[p]
             after == pass'[p]
         IN  \* the four fetches follow each other, one request each, unless
             \* one fails; what follows never goes back
             /\ Rank(after.pc) >= Rank(rec.pc)
             /\ rec.pc \in {"categories", "items", "variants"}
                => \/ Rank(after.pc) = Rank(rec.pc) + 1
                   \/ after.pc = "log_failed"
             /\ rec.pc = "inventory" => Rank(after.pc) > Rank(rec.pc)
             \* one batch per step, upserts at their place, deletes at theirs
             /\ after.upsertSent \in {rec.upsertSent, rec.upsertSent + 1}
             /\ after.deleteSent \in {rec.deleteSent, rec.deleteSent + 1}
             /\ after.upsertSent # rec.upsertSent
                => rec.pc = "upsert" /\ ~rec.diffRun /\ rec.deleteSent = 0
             /\ after.diffRun /\ ~rec.diffRun
                => UpsertsComplete(after) /\ after.deleteSent = 0
             \* no delete batch before the last upsert batch has completed
             /\ after.deleteSent # rec.deleteSent
                => rec.pc = "delete" /\ rec.diffRun /\ UpsertsComplete(rec)
             /\ products' # products => rec.pc \in {"upsert", "delete"}
             \* the ledger entry comes last
             /\ sync_logs' # sync_logs
                => rec.pc \in {"log_success", "log_failed"} /\ after.pc = "done"
             /\ LogsSuccess
                => /\ UpsertsComplete(rec) /\ DeletesComplete(rec)
                   /\ rec.errors = <<>> /\ rec.fetchErrors = 0

\* C20: within one full pass the steps come in the order categories, items,
\* variants, inventory, upsert batches, enumeration of the persisted SKUs,
\* delete batches, ledger entry; the batches go one after the other, no
\* delete batch is issued before the last upsert batch has completed, and an
\* entry with status success is written only after every upsert and delete
\* batch of the pass completed without error.
C20_StepOrder == [][C20_Step]_vars

\* A fullSync has fetched from the upstream, written its rows in a batch,
\* enumerated the table, deleted a row in a batch and logged success.
C20_Witness ==
  \E p \in Finished :
    /\ pass[p].mode = "full" /\ pass[p].errors = <<>>
    /\ pass[p].fromCache = {} /\ pass[p].diffRun
    /\ pass[p].upsertSent >= 1 /\ pass[p].deleteSent >= 1
    /\ pass[p].productsDeleted >= 1
    /\ pass[p].logged = 1 /\ LastEntry.status = "success"

\* A pass of the process is in progress.
InProgress(p) == pass[p].pc \notin {"idle", "done", "answered"}

\* The SKUs of the rows a full sync without cache writes for a catalog.
FlattenedSkus(src) ==
  {UncachedRows(src)[k].sku : k \in 1..Len(UncachedRows(src))}

\* C21: concurrent invocations are not mutually excluded: while a pass is in
\* progress, a request that arrives for another handler starts a second
\* pass at once.  (The interleaving of two full syncs in which one pass
\* deletes the row the other wrote is C21_Witness.)
C21_NotMutuallyExcluded ==
  \A p, q \in Procs :
    ( /\ p # q
      /\ pass[p].pc \in {"idle", "done", "answered"}
      /\ InProgress(q)
      /\ passes < MaxRacePasses )
    => ENABLED Start(p, "full", TRUE, FALSE, MaxRacePasses)

\* Two full syncs were in progress at the same time and both logged success;
\* the deletion diff of one (p), computed from the older snapshot, removed a
\* row that was not in the table when p started and that the other (q)
\* upserted from the latest snapshot; the upstream has not changed since q
\* started, and the table lacks a row of its flattening.
C21_Witness ==
  \E p, q \in Finished :
    /\ p # q
    /\ pass[p].mode = "full" /\ pass[q].mode = "full"
    /\ pass[p].errors = <<>> /\ pass[q].errors = <<>>
    /\ pass[p].logged = 1 /\ pass[q].logged = 1
    /\ pass[q].srcAtStart = upstream
    /\ pass[q].startedAt < pass[p].result.completed_at
    /\ pass[p].startedAt < pass[q].result.completed_at
    /\ \E sku \in Range(pass[p].skusToDelete) :
         /\ sku \notin TableSkus(pass[p].tableAtStart)
         /\ sku \in pass[p].diffTable
         /\ sku \in LoyverseSkus(pass[q].productsData)
         /\ sku \in FlattenedSkus(upstream)
         /\ sku \notin TableSkus(products)
    /\ pass[p].productsDeleted >= 1

\* The call of the step cannot be answered from the cache: caching is
\* disabled, or the file of the key is absent, or it is there but cannot be
\* read or parsed.
MustFetchLive(p, key) ==
  \/ ~pass[p].useCache
  \/ ~cache[key].present
  \/ ~cache[key].readable

\* The pass moves from one step to the next one.
Moves(p, from, to) == pass[p].pc = from /\ pass'[p].pc = to

C22_Step ==
  \A p \in Procs :
    \* a call that cannot be answered from the cache is answered: the pass
    \* goes on, with the collection as the upstream holds it, whether or not
    \* the cache file could be written
    /\ (pass[p].pc = "categories" /\ pass'[p] # pass[p]
          /\ MustFetchLive(p, "loyverse_categories"))
       => Moves(p, "categories", "items")
          /\ pass'[p].categories = upstream.categories
    /\ (pass[p].pc = "items" /\ pass'[p] # pass[p]
          /\ MustFetchLive(p, "loyverse_items"))
       => Moves(p, "items", "variants") /\ pass'[p].items = upstream.items
    /\ (pass[p].pc = "variants" /\ pass'[p] # pass[p]
          /\ MustFetchLive(p, "loyverse_variants"))
       => Moves(p, "variants", "inventory")
          /\ pass'[p].variants = upstream.variants
    /\ (pass[p].pc = "inventory" /\ pass'[p] # pass[p]
          /\ MustFetchLive(p, "loyverse_inventory"))
       => /\ pass'[p].pc \notin {"inventory", "log_failed"}
          /\ pass'[p].productsData =
               JoinProducts(pass[p].variants, pass[p].items,
                            upstream.inventory, pass[p].categories)
    /\ (pass'[p].diffRun /\ ~pass[p].diffRun
          /\ MustFetchLive(p, "supabase_product_skus"))
       => pass'[p].diffTable = TableSkus(products')
          /\ Range(pass'[p].allSkus) = TableSkus(products')
    \* a failed cache write changes nothing but the directory
    /\ pass'[p].fetchErrors = pass[p].fetchErrors

\* C22: a cache miss or cache failure degrades to a live fetch and never
\* aborts a pass: when the entry is absent, or present but unreadable or
\* unparsable, the collection is fetched live and the pass proceeds; when
\* the cache write fails the fetched data is still returned; with caching
\* disabled no result is taken from the cache.
C22_CacheFailureDegrades ==
  /\ [](\A p \in Procs : ~pass[p].useCache => pass[p].fromCache = {})
  /\ [][C22_Step]_vars

\* A pass with caching enabled answered its item call from the cache, found
\* the variants file damaged, fetched the variants live (they differ from
\* what the file held before) and could not write the file.
C22_Witness ==
  \E p \in Procs :
    /\ pass[p].pc = "inventory" /\ pass[p].useCache
    /\ "loyverse_items" \in pass[p].fromCache
    /\ "loyverse_variants" \notin pass[p].fromCache
    /\ cache["loyverse_variants"].present
    /\ ~cache["loyverse_variants"].readable
    /\ pass[p].variants = upstream.variants
    /\ pass[p].variants # pass[p].srcAtStart.variants

\* The records of the pages received, in the order of the requests.
RECURSIVE Concatenation(_)
Concatenation(responses) ==
  IF responses = <<>> THEN <<>>
  ELSE (IF Head(responses).has THEN Head(responses).records ELSE <<>>)
       \o Concatenation(Tail(responses))

\* The response carries a continuation cursor.
CarriesCursor(response) == response.cursor \notin {Null, ""}

C23_State ==
  \A p \in Procs :
    pass[p].pc = "paging" =>
      LET pg == pass[p].paging
          n == Len(pg.responses)
      IN  /\ Len(pg.requests) = n
          \* the first request has no cursor, each later one the cursor of
          \* the response before it, and that response carried one
          /\ \A k \in 1..n :
               /\ pg.requests[k].cursor =
                    (IF k = 1 THEN Null ELSE pg.responses[k - 1].cursor)
               /\ k > 1 => CarriesCursor(pg.responses[k - 1])
               /\ pg.requests[k].path = Path(pg.call)
               /\ pg.requests[k].updated_at_min
                    = (pg.call \in {"getItemsUpdatedAfter",
                                    "getVariantsUpdatedAfter"})
          \* it returns as soon as a response carries no cursor
          /\ pg.returned <=> (n > 0 /\ ~CarriesCursor(pg.responses[n]))
          \* every page's records once, in request order
          /\ pg.records = Concatenation(pg.responses)

\* C23: each upstream collection fetch requests a further page exactly while
\* the previous response carried a continuation cursor, passing that cursor
\* on; it stops as soon as a response carries no cursor and returns the
\* concatenation of the records of all pages in request order, each page's
\* records exactly once.
C23_Pagination ==
  /\ [](C23_State)
  /\ [][\A p \in Procs : pass[p].paging.returned =>
                           pass'[p].paging = pass[p].paging]_vars

\* A delta fetch has returned after three pages, the second without a list
\* of records.
C23_Witness ==
  \E p \in Procs :
    LET pg == pass[p].paging
    IN  /\ pass[p].pc = "paging" /\ pg.returned
        /\ pg.call = "getVariantsUpdatedAfter"
        /\ Len(pg.responses) = 3
        /\ ~pg.responses[2].has
        /\ pg.records = <<2, 3, 1>>

\* The SKUs of the table in the order in which the store returns them.
Persisted == SelectSeq(SkuOrder, LAMBDA s : s \in TableSkus(products))

C24_State ==
  \A p \in Procs :
    /\ pass[p].pc = "skus" =>
         \* the pages read so far are consecutive full pages
         /\ Len(pass[p].allSkus) = pass[p].page * PageSize
         /\ pass[p].allSkus = SubSeq(Persisted, 1, pass[p].page * PageSize)
    /\ (pass[p].diffRun /\ ~pass[p].useCache) =>
         \* every persisted SKU once
         /\ pass[p].allSkus = Persisted
         /\ Len(pass[p].allSkus) = Cardinality(products)
         \* it stopped at the first page shorter than the page size, which
         \* is empty when the row count is a multiple of the page size
         /\ pass[p].page = Cardinality(products) \div PageSize

\* C24: the enumeration of the persisted SKUs, the cache not used and the
\* table not modified meanwhile, ends for every table and returns every
\* persisted SKU exactly once: it reads consecutive ranges of the page size
\* and stops at the first page shorter than the page size, an empty page
\* when the row count is a multiple of the page size.
C24_EnumerationComplete ==
  /\ [](C24_State)
  /\ <>(\A p \in Procs : pass[p].pc # "skus")

\* The table holds four rows, twice the page size: the enumeration has read
\* two full pages and an empty one and returned the four SKUs.
C24_Witness ==
  \E p \in Procs :
    /\ pass[p].diffRun /\ ~pass[p].useCache
    /\ Cardinality(products) = 2 * PageSize
    /\ pass[p].page = 2
    /\ pass[p].allSkus = SkuOrder

\* A full sync (started as such or degraded to) without cache is over, and
\* its ledger entry, the last of the ledger, says success.
SucceededUncached(p) ==
  /\ pass[p].pc = "done" /\ pass[p].mode = "full" /\ ~pass[p].useCache
  /\ pass[p].logged = 1 /\ LastEntry.status = "success"
  /\ LastEntry.started_at = pass[p].startedAt

\* The variants the pass fetched whose item it resolved and whose effective
\* SKU is not empty.
Synced(p) ==
  {k \in 1..Len(pass[p].variants) :
     /\ MapHas(pass[p].items, pass[p].variants[k].item_id)
     /\ SkuOf(pass[p].variants[k]) \notin {Null, ""}}

\* The row of the table with that sku is the flattening of the k-th joined
\* product of the pass.
RowIsFlattening(p, k) ==
  ToSupabaseProduct(pass[p].productsData[k]) \in products

Succeeded(p) ==
  /\ pass[p].pc = "done" /\ pass[p].mode = "full"
  /\ pass[p].logged = 1 /\ LastEntry.status = "success"
  /\ LastEntry.started_at = pass[p].startedAt

\* C26, as stated: in a full sync a persisted row is deleted exactly when it
\* is absent from the joined output, whatever the upstream holds: the row of
\* a variant that is still upstream and whose item the pass did not resolve
\* is deleted, and when the joined output is empty every persisted row is
\* deleted and the pass still logs success.
C26_DeletedIffNotInOutput ==
  \A p \in Procs :
    Succeeded(p) =>
      /\ \A sku \in pass[p].diffTable :
           sku \notin TableSkus(products)
             <=> sku \notin LoyverseSkus(pass[p].productsData)
      /\ pass[p].productsData = <<>> => products = {}

\* An incrementalSync took the delta path, is over, and its ledger entry, the
\* last of the ledger, says success; the upstream catalog is as it was when
\* the pass started.
DeltaSucceeded(p) ==
  /\ pass[p].pc = "done"
  /\ pass[p].entry = "incremental" /\ pass[p].mode = "incremental"
  /\ pass[p].logged = 1 /\ LastEntry.status = "success"
  /\ LastEntry.started_at = pass[p].startedAt
  /\ pass[p].srcAtStart = upstream

\* The variant was created or updated upstream in this behaviour (before the
\* pass started, the catalog being as it was then), its item is upstream, and
\* its effective SKU is not empty and is that of no other variant.
UpdatedBefore(p, k) ==
  LET v == upstream.variants[k]
  IN  /\ v.updated_at > 0
      /\ v.updated_at < pass[p].startedAt
      /\ MapHas(upstream.items, v.item_id)
      /\ SkuOf(v) \notin {Null, ""}
      /\ \A m \in 1..Len(upstream.variants) :
           SkuOf(upstream.variants[m]) = SkuOf(v) => m = k

\* C27, as stated: no update of a variant is lost by the advancing
\* watermark: when a variant with a resolvable item is updated upstream at
\* any moment, also while a pass is between its variant fetch and its
\* success entry, then after the next incremental pass that starts after the
\* update and logs success the row of the variant reflects the update.
C27_NoUpdateLost ==
  \A p \in Procs :
    DeltaSucceeded(p) =>
      \A k \in 1..Len(upstream.variants) :
        UpdatedBefore(p, k) =>
          \E row \in products :
            /\ row.sku = SkuOf(upstream.variants[k])
            /\ row.price = upstream.variants[k].default_price

\* The effective SKUs of the variants the updated-variants fetch returned to
\* the pass and that the pass resolved to an item.
DeltaSkus(p) ==
  {SkuOf(pass[p].variants[k]) :
     k \in {m \in 1..Len(pass[p].variants) :
              MapHas(pass[p].items, pass[p].variants[m].item_id)}}

\* The rows a step writes, changes or removes.
Touched == (products' \ products) \cup (products \ products')

C28_Step ==
  \A p \in Procs :
    (DeltaPath(p) /\ passes' = passes /\ pass'[p] # pass[p]) =>
      \A row \in Touched :
        /\ row.sku \in DeltaSkus(p)
        /\ row.sku \in TableSkus(products')

\* C28: a delta-path incremental pass writes only rows whose SKU is the
\* effective SKU of a variant that the updated-variants fetch returned and
\* that was resolved to an item; every other row of the products table is
\* left as it is, also when the row's item or inventory changed upstream
\* since the watermark.
C28_DeltaWritesOnlyDeltaRows == [][C28_Step]_vars

\* A delta pass has logged success and has written the row of a variant
\* added since the watermark; the table still holds, as it was before the
\* pass, the row of another variant whose item was renamed upstream since.
C28_Witness ==
  \E p \in Procs :
    /\ DeltaSucceeded(p)
    /\ pass[p].upsertedRows >= 1
    /\ \E row \in products \cap pass[p].tableAtStart :
         /\ row.sku \notin DeltaSkus(p)
         /\ row.sku \in FlattenedSkus(upstream)
         /\ row \notin Range(UncachedRows(upstream))
         /\ \E k \in 1..Len(upstream.variants) :
              /\ SkuOf(upstream.variants[k]) = row.sku
              /\ \E m \in 1..Len(upstream.items) :
                   /\ upstream.items[m].id = upstream.variants[k].item_id
                   /\ upstream.items[m].updated_at >= pass[p].lastSync

C29_State ==
  \A p \in Procs :
    pass[p].lastSyncError =>
      /\ pass[p].entry = "incremental"
      \* it runs fullSync, as when the ledger holds no successful entry
      /\ pass[p].mode = "full" /\ pass[p].lastSync = 0
      /\ pass[p].pc \notin {"items_delta", "variants_delta", "repair"}
      /\ pass[p].pc = "done" =>
           \* with the deletion diff, unless a step before it failed
           /\ pass[p].errors = <<>> => pass[p].diffRun
           \* and its ledger entry is of kind full
           /\ pass[p].logged = 1 => LastEntry.sync_type = "full"

C29_Step ==
  \A p \in Procs :
    ( /\ pass[p].lastSyncError /\ pass'[p].lastSyncError
      /\ Len(sync_logs') = Len(sync_logs) + 1 )
    => sync_logs'[Len(sync_logs')].sync_type = "full"

\* C29: a failed read of the watermark is not told apart from 'no successful
\* sync so far': when the ledger query returns an error incrementalSync runs
\* fullSync, deletion diff included, and the ledger entry is of kind full,
\* also when the ledger holds successful entries; no failed incremental pass
\* is recorded.
C29_FailedReadDegrades ==
  [](C29_State) /\ [][C29_Step]_vars

\* The ledger held a successful entry, the watermark query of an
\* incrementalSync returned an error, and the pass ran the deletion diff,
\* deleted a row and logged a success entry of kind full.
C29_Witness ==
  \E p \in Finished :
    /\ pass[p].lastSyncError
    /\ LatestSuccess(SubSeq(sync_logs, 1, pass[p].ledgerAtStart)) # 0
    /\ pass[p].diffRun /\ pass[p].deleteSent >= 1
    /\ pass[p].logged = 1
    /\ LastEntry.sync_type = "full" /\ LastEntry.status = "success"

====
